---- MODULE Spec2Model ----
(***************************************************************************)
(* TypeSafeStorage: a typed facade over the AsyncStorage key-value store.  *)
(* The store keeps raw texts under string keys; the facade serializes      *)
(* values on the write path (stringify) and parses raw texts on the read   *)
(* path (JSON.parse).  ValueParser is the companion heuristic parser.      *)
(*                                                                         *)
(* A text is a sequence of one-character strings, so that parsing and      *)
(* serializing are computed character by character.                        *)
(***************************************************************************)
EXTENDS Integers, Sequences, FiniteSets, TLC

(***************************************************************************)
(* JavaScript values.  Every value is a record of the same shape; the tag  *)
(* t selects the field that carries the payload.  A number is the pair     *)
(* <<m, e>> standing for m * 10^e, normalised so that m is not a multiple  *)
(* of 10 (zero is <<0, 0>>; -0 and 0 are identified).                      *)
(***************************************************************************)
Blank == [t |-> "", b |-> FALSE, n |-> <<0, 0>>, s |-> <<>>, a |-> <<>>, o |-> <<>>]

VUndef == [Blank EXCEPT !.t = "undefined"]

VNull == [Blank EXCEPT !.t = "null"]

VNaN == [Blank EXCEPT !.t = "NaN"]

VInf == [Blank EXCEPT !.t = "Infinity"]

VBool(b) == [Blank EXCEPT !.t = "boolean", !.b = b]

RECURSIVE Norm(_, _)
Norm(m, e) ==
  IF m = 0 THEN <<0, 0>>
  ELSE IF m % 10 = 0 THEN Norm(m \div 10, e + 1)
  ELSE <<m, e>>

VNum(m, e) == [Blank EXCEPT !.t = "number", !.n = Norm(m, e)]

VStr(s) == [Blank EXCEPT !.t = "string", !.s = s]

VArr(a) == [Blank EXCEPT !.t = "array", !.a = a]

\* an object is the sequence of its members [k |-> text, v |-> value], in
\* insertion order, with no key twice
VObj(o) == [Blank EXCEPT !.t = "object", !.o = o]

\* typeof value === "string"
IsString(v) == v.t = "string"

\* typeof value === "object" (null, arrays and objects)
IsObjectType(v) == v.t \in {"null", "array", "object"}

\* !value
IsFalsy(v) ==
  \/ v.t \in {"undefined", "null", "NaN"}
  \/ v.t = "boolean" /\ ~v.b
  \/ v.t = "number" /\ v.n = <<0, 0>>
  \/ v.t = "string" /\ v.s = <<>>

(***************************************************************************)
(* Characters.                                                             *)
(***************************************************************************)
DigitChars == <<"0", "1", "2", "3", "4", "5", "6", "7", "8", "9">>

Digit == {DigitChars[i] : i \in 1..10}

DigitVal(c) == (CHOOSE i \in 1..10 : DigitChars[i] = c) - 1

HexChars == <<"0", "1", "2", "3", "4", "5", "6", "7", "8", "9",
              "a", "b", "c", "d", "e", "f">>

HexUpper == <<"0", "1", "2", "3", "4", "5", "6", "7", "8", "9",
              "A", "B", "C", "D", "E", "F">>

HexDigit == {HexChars[i] : i \in 1..16} \cup {HexUpper[i] : i \in 1..16}

HexVal(c) == (CHOOSE i \in 1..16 : HexChars[i] = c \/ HexUpper[i] = c) - 1

\* JSON whitespace; the only white space of the texts in the model
WhiteSpace == {" ", "\t", "\n", "\r"}

\* the character at position i, "" past the end (value[i] === undefined)
At(s, i) == IF i >= 1 /\ i <= Len(s) THEN s[i] ELSE ""

\* word occurs in s at position i
Has(s, i, word) ==
  /\ i + Len(word) - 1 <= Len(s)
  /\ \A j \in 1..Len(word) : s[i + j - 1] = word[j]

RECURSIVE SkipWs(_, _)
SkipWs(s, i) == IF At(s, i) \in WhiteSpace THEN SkipWs(s, i + 1) ELSE i

RECURSIVE SkipWsBack(_, _)
SkipWsBack(s, i) == IF At(s, i) \in WhiteSpace THEN SkipWsBack(s, i - 1) ELSE i

\* the end of the run of digits that starts at i (i itself when there is none)
RECURSIVE DigitsEnd(_, _)
DigitsEnd(s, i) == IF At(s, i) \in Digit THEN DigitsEnd(s, i + 1) ELSE i

\* the decimal number written by the digits s[i..j-1], continuing acc
RECURSIVE DigitsVal(_, _, _, _)
DigitsVal(s, i, j, acc) ==
  IF i >= j THEN acc ELSE DigitsVal(s, i + 1, j, acc * 10 + DigitVal(s[i]))

RECURSIVE NatText(_)
NatText(m) ==
  IF m < 10 THEN <<DigitChars[m + 1]>>
  ELSE NatText(m \div 10) \o <<DigitChars[(m % 10) + 1]>>

RECURSIVE Zeros(_)
Zeros(k) == IF k <= 0 THEN <<>> ELSE <<"0">> \o Zeros(k - 1)

\* Number::toString for the numbers of the model (1e-6 <= |x| < 1e21 or 0)
NumText(n) ==
  LET m == IF n[1] < 0 THEN -n[1] ELSE n[1]
      e == n[2]
      d == NatText(m)
      sign == IF n[1] < 0 THEN <<"-">> ELSE <<>>
      body == IF e >= 0 THEN d \o Zeros(e)
              ELSE IF Len(d) > -e
                   THEN SubSeq(d, 1, Len(d) + e) \o <<".">> \o SubSeq(d, Len(d) + e + 1, Len(d))
                   ELSE <<"0", ".">> \o Zeros(-e - Len(d)) \o d
  IN sign \o body

(***************************************************************************)
(* JSON.stringify.                                                         *)
(***************************************************************************)
RECURSIVE Escaped(_)
Escaped(s) ==
  IF s = <<>> THEN <<>>
  ELSE (IF Head(s) \in {"\"", "\\"} THEN <<"\\", Head(s)>> ELSE <<Head(s)>>)
       \o Escaped(Tail(s))

Quote(s) == <<"\"">> \o Escaped(s) \o <<"\"">>

RECURSIVE JsonText(_)
RECURSIVE ItemsText(_, _)
RECURSIVE MembersText(_, _)
\* the elements a[i..] separated by commas
ItemsText(a, i) ==
  IF i > Len(a) THEN <<>>
  ELSE (IF i > 1 THEN <<",">> ELSE <<>>) \o JsonText(a[i]) \o ItemsText(a, i + 1)

\* the members o[i..] separated by commas; first tells that none was written yet
MembersText(o, first) ==
  IF o = <<>> THEN <<>>
  ELSE IF Head(o).v.t = "undefined" THEN MembersText(Tail(o), first)
  ELSE (IF first THEN <<>> ELSE <<",">>)
       \o Quote(Head(o).k) \o <<":">> \o JsonText(Head(o).v)
       \o MembersText(Tail(o), FALSE)

\* the JSON text of a value that is, or sits inside, an array or object
JsonText(v) ==
  CASE v.t \in {"null", "undefined", "NaN", "Infinity"} -> <<"n", "u", "l", "l">>
    [] v.t = "boolean" -> IF v.b THEN <<"t", "r", "u", "e">> ELSE <<"f", "a", "l", "s", "e">>
    [] v.t = "number" -> NumText(v.n)
    [] v.t = "string" -> Quote(v.s)
    [] v.t = "array" -> <<"[">> \o ItemsText(v.a, 1) \o <<"]">>
    [] v.t = "object" -> <<"{">> \o MembersText(v.o, TRUE) \o <<"}">>

\* JSON.stringify(value): a string, or undefined for undefined
JsonStringify(v) == IF v.t = "undefined" THEN VUndef ELSE VStr(JsonText(v))

(***************************************************************************)
(* JSON.parse.  A parse step returns [ok, v, i]: whether a value was read, *)
(* the value, and the position after it.                                   *)
(***************************************************************************)
Fail == [ok |-> FALSE, v |-> VUndef, i |-> 0]

Got(v, i) == [ok |-> TRUE, v |-> v, i |-> i]

\* the number token at i: -? (0 | [1-9][0-9]*) (. [0-9]+)? ([eE] [+-]? [0-9]+)?
ParseNumber(s, i) ==
  LET neg == At(s, i) = "-"
      i0 == IF neg THEN i + 1 ELSE i
      i1 == IF At(s, i0) = "0" THEN i0 + 1 ELSE DigitsEnd(s, i0)
      hasFrac == At(s, i1) = "."
      i2 == IF hasFrac THEN DigitsEnd(s, i1 + 1) ELSE i1
      hasExp == At(s, i2) \in {"e", "E"}
      x0 == IF hasExp /\ At(s, i2 + 1) \in {"+", "-"} THEN i2 + 2 ELSE i2 + 1
      i3 == IF hasExp THEN DigitsEnd(s, x0) ELSE i2
      mant == DigitsVal(s, i1 + 1, i2, DigitsVal(s, i0, i1, 0))
      fracLen == IF hasFrac THEN i2 - i1 - 1 ELSE 0
      ex == IF hasExp THEN DigitsVal(s, x0, i3, 0) ELSE 0
      exp == IF hasExp /\ At(s, i2 + 1) = "-" THEN -ex ELSE ex
  IN IF i1 = i0 \/ (hasFrac /\ i2 = i1 + 1) \/ (hasExp /\ i3 = x0) THEN Fail
     ELSE Got(VNum(IF neg THEN -mant ELSE mant, exp - fracLen), i3)

\* the rest of a string literal whose opening quote was read; acc is its text
RECURSIVE ParseString(_, _, _)
ParseString(s, i, acc) ==
  LET c == At(s, i) IN
  IF c = "" \/ c \in {"\n", "\t", "\r"} THEN Fail
  ELSE IF c = "\"" THEN Got(VStr(acc), i + 1)
  ELSE IF c = "\\"
       THEN IF At(s, i + 1) \in {"\"", "\\", "/"}
            THEN ParseString(s, i + 2, Append(acc, At(s, i + 1)))
            ELSE Fail
  ELSE ParseString(s, i + 1, Append(acc, c))

\* o with member k set to v: a repeated key keeps its place and takes the new value
PutMember(o, k, v) ==
  IF \E j \in 1..Len(o) : o[j].k = k
  THEN [j \in 1..Len(o) |-> IF o[j].k = k THEN [k |-> k, v |-> v] ELSE o[j]]
  ELSE Append(o, [k |-> k, v |-> v])

RECURSIVE ParseValue(_, _)
RECURSIVE ParseElements(_, _, _)
RECURSIVE ParseMembers(_, _, _)
ParseElements(s, i, acc) ==
  LET r == ParseValue(s, SkipWs(s, i))
      j == SkipWs(s, r.i)
  IN IF ~r.ok THEN Fail
     ELSE IF At(s, j) = "," THEN ParseElements(s, j + 1, Append(acc, r.v))
     ELSE IF At(s, j) = "]" THEN Got(VArr(Append(acc, r.v)), j + 1)
     ELSE Fail

ParseMembers(s, i, acc) ==
  LET j == SkipWs(s, i)
      key == IF At(s, j) = "\"" THEN ParseString(s, j + 1, <<>>) ELSE Fail
      c == SkipWs(s, key.i)
      r == IF key.ok /\ At(s, c) = ":" THEN ParseValue(s, SkipWs(s, c + 1)) ELSE Fail
      n == SkipWs(s, r.i)
      o == PutMember(acc, key.v.s, r.v)
  IN IF ~r.ok THEN Fail
     ELSE IF At(s, n) = "," THEN ParseMembers(s, n + 1, o)
     ELSE IF At(s, n) = "}" THEN Got(VObj(o), n + 1)
     ELSE Fail

ParseValue(s, i) ==
  LET c == At(s, i) IN
  CASE c = "n" -> IF Has(s, i, <<"n", "u", "l", "l">>) THEN Got(VNull, i + 4) ELSE Fail
    [] c = "t" -> IF Has(s, i, <<"t", "r", "u", "e">>) THEN Got(VBool(TRUE), i + 4) ELSE Fail
    [] c = "f" -> IF Has(s, i, <<"f", "a", "l", "s", "e">>) THEN Got(VBool(FALSE), i + 5) ELSE Fail
    [] c = "\"" -> ParseString(s, i + 1, <<>>)
    [] c = "[" -> IF At(s, SkipWs(s, i + 1)) = "]"
                  THEN Got(VArr(<<>>), SkipWs(s, i + 1) + 1)
                  ELSE ParseElements(s, i + 1, <<>>)
    [] c = "{" -> IF At(s, SkipWs(s, i + 1)) = "}"
                  THEN Got(VObj(<<>>), SkipWs(s, i + 1) + 1)
                  ELSE ParseMembers(s, i + 1, <<>>)
    [] c = "-" \/ c \in Digit -> ParseNumber(s, i)
    [] OTHER -> Fail

\* JSON.parse(text): [ok |-> TRUE, v |-> the value], or ok = FALSE for the
\* SyntaxError it throws
JsonParse(s) ==
  LET r == ParseValue(s, SkipWs(s, 1))
  IN IF r.ok /\ SkipWs(s, r.i) = Len(s) + 1
     THEN [ok |-> TRUE, v |-> r.v]
     ELSE [ok |-> FALSE, v |-> VUndef]

(***************************************************************************)
(* parseFloat and the string-to-number conversion of ==.                   *)
(***************************************************************************)
\* the longest prefix of s[i..] that is a StrDecimalLiteral:
\* [+-]? (Infinity | digits (. digits?)? exponent? | . digits exponent?)
ScanDecimal(s, i) ==
  LET neg == At(s, i) = "-"
      i0 == IF At(s, i) \in {"+", "-"} THEN i + 1 ELSE i
      i1 == DigitsEnd(s, i0)
      hasDot == At(s, i1) = "."
      i2 == IF hasDot THEN DigitsEnd(s, i1 + 1) ELSE i1
      noDigits == i1 = i0 /\ (~hasDot \/ i2 = i1 + 1)
      x0 == IF At(s, i2 + 1) \in {"+", "-"} THEN i2 + 2 ELSE i2 + 1
      hasExp == At(s, i2) \in {"e", "E"} /\ DigitsEnd(s, x0) > x0
      i3 == IF hasExp THEN DigitsEnd(s, x0) ELSE i2
      mant == DigitsVal(s, i1 + 1, i2, DigitsVal(s, i0, i1, 0))
      fracLen == IF hasDot THEN i2 - i1 - 1 ELSE 0
      ex == IF hasExp THEN DigitsVal(s, x0, i3, 0) ELSE 0
      exp == IF hasExp /\ At(s, i2 + 1) = "-" THEN -ex ELSE ex
  IN IF Has(s, i0, <<"I", "n", "f", "i", "n", "i", "t", "y">>)
     THEN Got([VInf EXCEPT !.n = IF neg THEN <<-1, 0>> ELSE <<1, 0>>], i0 + 8)
     ELSE IF noDigits THEN Fail
     ELSE Got(VNum(IF neg THEN -mant ELSE mant, exp - fracLen), i3)

\* parseFloat(value)
ParseFloat(s) ==
  LET r == ScanDecimal(s, SkipWs(s, 1))
  IN IF r.ok THEN r.v ELSE VNaN

\* the number written in the given radix by s[i..j], -1 when a character is
\* no digit of the radix or there is no digit at all
RECURSIVE RadixVal(_, _, _, _, _)
RadixVal(s, i, j, radix, acc) ==
  IF i > j THEN acc
  ELSE IF s[i] \in HexDigit /\ HexVal(s[i]) < radix
       THEN RadixVal(s, i + 1, j, radix, acc * radix + HexVal(s[i]))
       ELSE -1

\* ToNumber applied to a string: what == compares a number with
ToNumber(s) ==
  LET a == SkipWs(s, 1)
      z == SkipWsBack(s, Len(s))
      radix == CASE At(s, a) = "0" /\ At(s, a + 1) \in {"x", "X"} -> 16
                 [] At(s, a) = "0" /\ At(s, a + 1) \in {"o", "O"} -> 8
                 [] At(s, a) = "0" /\ At(s, a + 1) \in {"b", "B"} -> 2
                 [] OTHER -> 10
      r == ScanDecimal(s, a)
      h == IF a + 2 > z THEN -1 ELSE RadixVal(s, a + 2, z, radix, 0)
  IN IF a > z THEN VNum(0, 0)
     ELSE IF radix # 10 THEN (IF h < 0 THEN VNaN ELSE VNum(h, 0))
     ELSE IF r.ok /\ r.i = z + 1 THEN r.v
     ELSE VNaN

(***************************************************************************)
(* ValueParser.                                                            *)
(***************************************************************************)
\* an outcome of a call: the value returned, or the error thrown
Returned(v) == [ok |-> TRUE, v |-> v, err |-> ""]

Thrown(e) == [ok |-> FALSE, v |-> VUndef, err |-> e]

\* an isNumber that compares the string form of the float with the text
isNumber_strict(value) ==
  LET parsed == ParseFloat(value)
  IN parsed.t = "number" /\ NumText(parsed.n) = value

isNumber(value) ==
  LET parsed == ParseFloat(value)
  IN parsed.t # "NaN" /\ parsed = ToNumber(value)

isJSON(value) ==
  LET first == At(value, 1)
      last == At(value, Len(value))
  IN \/ first = "{" /\ last = "}"
     \/ first = "[" /\ last = "]"

parseValue(value) ==
  IF IsString(value)
  THEN IF isNumber(value.s) THEN Returned(ParseFloat(value.s))
       ELSE IF isJSON(value.s)
            THEN (IF JsonParse(value.s).ok THEN Returned(JsonParse(value.s).v)
                  ELSE Thrown("SyntaxError"))
       ELSE Returned(value)
  ELSE Returned(value)

InvalidJSON == "AsyncStorage.mergeItem expects a JSON valid value"

validateJSON(value) ==
  IF IsFalsy(value) \/ ~IsObjectType(value) THEN Thrown(InvalidJSON)
  ELSE Returned(VUndef)

(***************************************************************************)
(* The inputs of the model.                                                *)
(***************************************************************************)
\* the longest batch (key list or pair list) handed to a multi operation
MaxBatch == 2

\* the longest raw text handed to the heuristic parser
MaxLen == 3

\* the keys of the schema, and a key of another caller of the shared store
Keys == {"a", "b"}

ForeignKey == "z"

StoreKeys == Keys \cup {ForeignKey}

KeyText(k) == <<k>>

Hi == VStr(<<"h", "i">>)

FortyTwoText == VStr(<<"4", "2">>)

FortyTwo == VNum(42, 0)

ObjA1 == VObj(<<[k |-> <<"a">>, v |-> VNum(1, 0)]>>)

\* the values written with setItem: JSON-representable values of a schema
Values == {VNull, FortyTwo, Hi, FortyTwoText, ObjA1}

\* the pairs handed to the batch operations
BatchPairs == {[k |-> "a", v |-> Hi], [k |-> "b", v |-> ObjA1]}

\* the values handed to mergeItem, the ones the merge types reject included
MergeValues == {VNull, FortyTwo, Hi, VBool(TRUE), VUndef, ObjA1}

\* the characters of the raw texts handed to the heuristic parser
ParserAlphabet == {"4", "0", ".", "e", " ", "x", "{", "}", "[", "]"}

SeqsUpTo(S, n) == UNION {[1..m -> S] : m \in 0..n}

(***************************************************************************)
(* TypeSafeStorage: the conversions of the write path and the read path.   *)
(***************************************************************************)
stringify(value) == IF IsString(value) THEN value ELSE JsonStringify(value)

\* a getItem that swallows the SyntaxError of JSON.parse and resolves to null
getItemReturn_swallow(value) ==
  LET Parsed(p) == IF p.ok THEN Returned(p.v) ELSE Returned(VNull)
  IN IF value = VNull THEN Returned(VNull) ELSE Parsed(JsonParse(value.s))

\* getItem: value === null ? null : JSON.parse(value)
getItemReturn(value) ==
  LET Parsed(p) == IF p.ok THEN Returned(p.v) ELSE Thrown("SyntaxError")
  IN IF value = VNull THEN Returned(VNull) ELSE Parsed(JsonParse(value.s))

\* a multiGet that maps every pair to its parsed value and drops the key
multiGetReturn_valuesOnly(values) ==
  LET Mapped(parsed) ==
        IF \E i \in 1..Len(values) : ~parsed[i].ok
        THEN Thrown("SyntaxError")
        ELSE Returned(VArr([i \in 1..Len(values) |-> parsed[i].v]))
  IN Mapped([i \in 1..Len(values) |-> getItemReturn(values[i].a[2])])

\* multiGet: values.map(([key, value]) => [key, value === null ? null : JSON.parse(value)])
multiGetReturn(values) ==
  LET Mapped(parsed) ==
        IF \E i \in 1..Len(values) : ~parsed[i].ok
        THEN Thrown("SyntaxError")
        ELSE Returned(VArr([i \in 1..Len(values) |->
               VArr(<<values[i].a[1], parsed[i].v>>)]))
  IN Mapped([i \in 1..Len(values) |-> getItemReturn(values[i].a[2])])

\* mergeItem: the text handed to AsyncStorage.mergeItem
mergeItemValue(value) == JsonStringify(value)

\* a pair serializer that JSON-encodes texts too, as mergeItem does
stringifyPairs_json(keyValuePairs) ==
  [i \in 1..Len(keyValuePairs) |->
     [k |-> keyValuePairs[i].k, v |-> JsonStringify(keyValuePairs[i].v)]]

\* multiMerge, multiSet: keyValuePairs.map(([key, value]) => [key, this.stringify(value)])
stringifyPairs(keyValuePairs) ==
  [i \in 1..Len(keyValuePairs) |->
     [k |-> keyValuePairs[i].k, v |-> stringify(keyValuePairs[i].v)]]

(***************************************************************************)
(* The underlying store: every key holds a raw text, or null for no entry. *)
(* A response of the store is the outcome it settles the promise with; the *)
(* callback, when one was handed over, is invoked once with the same       *)
(* outcome.                                                                *)
(***************************************************************************)
StoreError == "StoreError"

NoCallback == [n |-> 0, err |-> "", v |-> VUndef]

\* the completion callback as the store invokes it
StoreCallback(resp) == [n |-> 1, err |-> resp.err, v |-> resp.v]

\* a facade that keeps the callback to itself
passCallback_dropped(callback, resp) == NoCallback

\* the facade hands its callback argument to the store unchanged
passCallback(callback, resp) == IF callback THEN StoreCallback(resp) ELSE NoCallback

rawMultiGet(st, keys) ==
  VArr([i \in 1..Len(keys) |-> VArr(<<VStr(KeyText(keys[i])), st[keys[i]]>>)])

RECURSIVE rawMultiSet(_, _)
rawMultiSet(st, pairs) ==
  IF pairs = <<>> THEN st
  ELSE rawMultiSet([st EXCEPT ![Head(pairs).k] = Head(pairs).v], Tail(pairs))

rawMultiRemove(st, keys) ==
  [k \in StoreKeys |-> IF \E i \in 1..Len(keys) : keys[i] = k THEN VNull ELSE st[k]]

RECURSIVE MergeMembers(_, _)
MergeMembers(old, new) ==
  IF new = <<>> THEN old
  ELSE MergeMembers(PutMember(old, Head(new).k, Head(new).v), Tail(new))

\* the raw text is JSON, or there is no entry
ParsedEntry(raw) ==
  LET Entry(p) == [ok |-> p.ok, v |-> p.v, raw |-> raw, merged |-> FALSE]
  IN IF raw = VNull THEN Entry([ok |-> TRUE, v |-> VNull])
     ELSE IF IsString(raw) THEN Entry(JsonParse(raw.s))
     ELSE Entry([ok |-> FALSE, v |-> VUndef])

\* the parsed entries after the parsed pairs were merged into them, in order
RECURSIVE MergedEntries(_, _)
MergedEntries(entries, pairs) ==
  IF pairs = <<>> THEN entries
  ELSE LET k == Head(pairs).k
           cur == entries[k]
           new == Head(pairs).e
           next == IF cur.v.t = "object" /\ new.v.t = "object"
                   THEN [new EXCEPT !.v = VObj(MergeMembers(cur.v.o, new.v.o)),
                                    !.merged = TRUE]
                   ELSE new
       IN MergedEntries([entries EXCEPT ![k] = next], Tail(pairs))

\* the merges of the pairs, in order: [ok, st], the store after them, or ok =
\* FALSE when an entry or a text handed over is no JSON text
rawMultiMerge(st, pairs) ==
  LET Stored(after) ==
        [k \in StoreKeys |->
           IF after[k].merged THEN VStr(JsonText(after[k].v)) ELSE after[k].raw]
      Merged(parsed, entries) ==
        IF \E i \in 1..Len(pairs) :
             ~parsed[i].e.ok \/ pairs[i].v = VNull \/ ~entries[pairs[i].k].ok
        THEN [ok |-> FALSE, st |-> st]
        ELSE [ok |-> TRUE, st |-> Stored(MergedEntries(entries, parsed))]
  IN Merged([i \in 1..Len(pairs) |-> [k |-> pairs[i].k, e |-> ParsedEntry(pairs[i].v)]],
            [k \in StoreKeys |-> ParsedEntry(st[k])])

rawGetAllKeys(st) ==
  LET order == <<"a", "b", "z">>
      present == SelectSeq(order, LAMBDA k : st[k] # VNull)
  IN VArr([i \in 1..Len(present) |-> VStr(KeyText(present[i]))])

\* the response of the store: an error it reports, or the result
Response(fail, v) == IF fail THEN Thrown(StoreError) ELSE Returned(v)

(***************************************************************************)
(* The state.                                                              *)
(*   store    the entries of the underlying store                          *)
(*   last     the facade call that completed last: its arguments, the      *)
(*            store operation it invoked with the texts it handed over,    *)
(*            the settlement of its promise and what its callback saw      *)
(*   written  per schema key, the value of the latest successful setItem   *)
(*            with no later write to the key (undefined when there is      *)
(*            none)                                                        *)
(*   batch    progress of the sequence multiSet, multiRemove, multiGet     *)
(*            over one key list                                            *)
(*   input, output, phase   a call of ValueParser.parseValue               *)
(* A facade method makes one call of the store and converts what it hands  *)
(* over or gets back; a call is one step.                                  *)
(***************************************************************************)
VARIABLES store, last, written, batch, input, output, phase

vars == <<store, last, written, batch, input, output, phase>>

facadeVars == <<store, last, written, batch>>

parserVars == <<input, output, phase>>

\* the entry of the other caller
ForeignText == VStr(<<"x">>)

NoCall ==
  [op |-> "none", keys |-> <<>>, vals |-> <<>>, storeOp |-> "none", raw |-> <<>>,
   got |-> Returned(VUndef), promise |-> Returned(VUndef), callback |-> FALSE,
   cb |-> NoCallback]

NoBatch == [stage |-> 0, keys |-> <<>>]

Unwritten == [k \in Keys |-> VUndef]

KeysOf(pairs) == [i \in 1..Len(pairs) |-> pairs[i].k]

ValuesOf(pairs) == [i \in 1..Len(pairs) |-> pairs[i].v]

InSeq(x, seq) == \E i \in 1..Len(seq) : seq[i] = x

Init ==
  /\ store = [k \in StoreKeys |-> IF k = ForeignKey THEN ForeignText ELSE VNull]
  /\ last = NoCall
  /\ written = Unwritten
  /\ batch = NoBatch
  /\ input = VUndef
  /\ output = Returned(VUndef)
  /\ phase = "idle"

clear(callback, fail) ==
  LET resp == Response(fail, VUndef) IN
  /\ store' = IF resp.ok THEN [k \in StoreKeys |-> VNull] ELSE store
  /\ last' = [NoCall EXCEPT !.op = "clear", !.storeOp = "clear", !.got = resp,
                !.promise = resp,
                !.callback = callback, !.cb = passCallback(callback, resp)]
  /\ written' = IF resp.ok THEN Unwritten ELSE written
  /\ batch' = NoBatch
  /\ UNCHANGED parserVars

flushGetRequests ==
  /\ last' = [NoCall EXCEPT !.op = "flushGetRequests", !.storeOp = "flushGetRequests"]
  /\ batch' = NoBatch
  /\ UNCHANGED <<store, written, parserVars>>

getAllKeys(callback, fail) ==
  LET resp == Response(fail, rawGetAllKeys(store)) IN
  /\ last' = [NoCall EXCEPT !.op = "getAllKeys", !.storeOp = "getAllKeys", !.got = resp,
                !.promise = resp,
                !.callback = callback, !.cb = passCallback(callback, resp)]
  /\ batch' = NoBatch
  /\ UNCHANGED <<store, written, parserVars>>

getItem(key, callback, fail) ==
  LET resp == Response(fail, store[key]) IN
  /\ last' = [NoCall EXCEPT !.op = "getItem", !.keys = <<key>>, !.storeOp = "getItem",
                !.got = resp,
                !.promise = IF resp.ok THEN getItemReturn(resp.v) ELSE resp,
                !.callback = callback, !.cb = passCallback(callback, resp)]
  /\ batch' = NoBatch
  /\ UNCHANGED <<store, written, parserVars>>

mergeItem(key, value, callback, fail) ==
  \E raw \in {mergeItemValue(value)} :
  \E merged \in {rawMultiMerge(store, <<[k |-> key, v |-> raw]>>)} :
  \E resp \in {Response(fail \/ ~merged.ok, VUndef)} :
  /\ store' = IF resp.ok THEN merged.st ELSE store
  /\ last' = [NoCall EXCEPT !.op = "mergeItem", !.keys = <<key>>, !.vals = <<value>>,
                !.storeOp = "mergeItem", !.raw = <<raw>>, !.got = resp,
                !.promise = resp,
                !.callback = callback, !.cb = passCallback(callback, resp)]
  /\ written' = IF resp.ok THEN [written EXCEPT ![key] = VUndef] ELSE written
  /\ batch' = NoBatch
  /\ UNCHANGED parserVars

multiGet(keys, callback, fail) ==
  LET resp == Response(fail, rawMultiGet(store, keys)) IN
  /\ last' = [NoCall EXCEPT !.op = "multiGet", !.keys = keys, !.storeOp = "multiGet",
                !.got = resp,
                !.promise = IF resp.ok THEN multiGetReturn(resp.v.a) ELSE resp,
                !.callback = callback, !.cb = passCallback(callback, resp)]
  /\ batch' = IF batch.stage = 2 /\ batch.keys = keys /\ resp.ok
              THEN [stage |-> 3, keys |-> keys] ELSE NoBatch
  /\ UNCHANGED <<store, written, parserVars>>

multiMerge(keyValuePairs, callback, fail) ==
  \E handed \in {stringifyPairs(keyValuePairs)} :
  \E merged \in {rawMultiMerge(store, handed)} :
  \E resp \in {Response(fail \/ ~merged.ok, VUndef)} :
  /\ store' = IF resp.ok THEN merged.st ELSE store
  /\ last' = [NoCall EXCEPT !.op = "multiMerge", !.keys = KeysOf(keyValuePairs),
                !.vals = ValuesOf(keyValuePairs), !.storeOp = "multiMerge",
                !.raw = ValuesOf(handed), !.got = resp, !.promise = resp,
                !.callback = callback, !.cb = passCallback(callback, resp)]
  /\ written' = IF resp.ok
                THEN [k \in Keys |-> IF InSeq(k, KeysOf(handed)) THEN VUndef ELSE written[k]]
                ELSE written
  /\ batch' = NoBatch
  /\ UNCHANGED parserVars

multiRemove(keys, callback, fail) ==
  LET resp == Response(fail, VUndef) IN
  /\ store' = IF resp.ok THEN rawMultiRemove(store, keys) ELSE store
  /\ last' = [NoCall EXCEPT !.op = "multiRemove", !.keys = keys, !.storeOp = "multiRemove",
                !.got = resp, !.promise = resp,
                !.callback = callback, !.cb = passCallback(callback, resp)]
  /\ written' = IF resp.ok
                THEN [k \in Keys |-> IF InSeq(k, keys) THEN VUndef ELSE written[k]]
                ELSE written
  /\ batch' = IF batch.stage = 1 /\ batch.keys = keys /\ resp.ok
              THEN [stage |-> 2, keys |-> keys] ELSE NoBatch
  /\ UNCHANGED parserVars

multiSet(keyValuePairs, callback, fail) ==
  LET handed == stringifyPairs(keyValuePairs)
      resp == Response(fail, VUndef)
  IN
  /\ store' = IF resp.ok THEN rawMultiSet(store, handed) ELSE store
  /\ last' = [NoCall EXCEPT !.op = "multiSet", !.keys = KeysOf(keyValuePairs),
                !.vals = ValuesOf(keyValuePairs), !.storeOp = "multiSet",
                !.raw = ValuesOf(handed), !.got = resp, !.promise = resp,
                !.callback = callback, !.cb = passCallback(callback, resp)]
  /\ written' = IF resp.ok
                THEN [k \in Keys |-> IF InSeq(k, KeysOf(handed)) THEN VUndef ELSE written[k]]
                ELSE written
  /\ batch' = IF resp.ok THEN [stage |-> 1, keys |-> KeysOf(keyValuePairs)] ELSE NoBatch
  /\ UNCHANGED parserVars

removeItem(key, callback, fail) ==
  LET resp == Response(fail, VUndef) IN
  /\ store' = IF resp.ok THEN [store EXCEPT ![key] = VNull] ELSE store
  /\ last' = [NoCall EXCEPT !.op = "removeItem", !.keys = <<key>>, !.storeOp = "removeItem",
                !.got = resp, !.promise = resp,
                !.callback = callback, !.cb = passCallback(callback, resp)]
  /\ written' = IF resp.ok THEN [written EXCEPT ![key] = VUndef] ELSE written
  /\ batch' = NoBatch
  /\ UNCHANGED parserVars

setItem(key, value, callback, fail) ==
  LET raw == stringify(value)
      resp == Response(fail, VUndef)
  IN
  /\ store' = IF resp.ok THEN [store EXCEPT ![key] = raw] ELSE store
  /\ last' = [NoCall EXCEPT !.op = "setItem", !.keys = <<key>>, !.vals = <<value>>,
                !.storeOp = "setItem", !.raw = <<raw>>, !.got = resp, !.promise = resp,
                !.callback = callback, !.cb = passCallback(callback, resp)]
  /\ written' = IF resp.ok THEN [written EXCEPT ![key] = value] ELSE written
  /\ batch' = NoBatch
  /\ UNCHANGED parserVars

Next ==
  \/ \E callback, fail \in BOOLEAN : clear(callback, fail)
  \/ flushGetRequests
  \/ \E callback, fail \in BOOLEAN : getAllKeys(callback, fail)
  \/ \E key \in Keys, callback, fail \in BOOLEAN : getItem(key, callback, fail)
  \/ \E keys \in SeqsUpTo(Keys, MaxBatch), callback, fail \in BOOLEAN : multiGet(keys, callback, fail)
  \/ \E keys \in SeqsUpTo(Keys, MaxBatch), callback, fail \in BOOLEAN : multiRemove(keys, callback, fail)
  \/ \E pairs \in SeqsUpTo(BatchPairs, MaxBatch), callback, fail \in BOOLEAN : multiSet(pairs, callback, fail)
  \/ \E key \in Keys, callback, fail \in BOOLEAN : removeItem(key, callback, fail)
  \/ \E key \in Keys, value \in Values, callback, fail \in BOOLEAN : setItem(key, value, callback, fail)

\* the facade used for reading, writing and removing
Spec == Init /\ [][Next]_vars

NextMerge ==
  \/ \E key \in Keys, value \in MergeValues, callback, fail \in BOOLEAN : mergeItem(key, value, callback, fail)
  \/ \E pairs \in SeqsUpTo(BatchPairs, MaxBatch), callback, fail \in BOOLEAN : multiMerge(pairs, callback, fail)
  \/ \E key \in Keys, callback, fail \in BOOLEAN : getItem(key, callback, fail)
  \/ \E key \in Keys, callback, fail \in BOOLEAN : removeItem(key, callback, fail)

\* the facade used for merging into entries
SpecMerge == Init /\ [][NextMerge]_vars

(***************************************************************************)
(* ValueParser.parseValue applied to one input.                            *)
(***************************************************************************)
ParserInputs ==
  {VStr(s) : s \in SeqsUpTo(ParserAlphabet, MaxLen)} \cup {VNull, FortyTwo, ObjA1}

InitParser ==
  /\ store = [k \in StoreKeys |-> VNull]
  /\ last = NoCall
  /\ written = Unwritten
  /\ batch = NoBatch
  /\ input \in ParserInputs
  /\ output = Returned(VUndef)
  /\ phase = "ready"

callParseValue ==
  /\ phase = "ready"
  /\ output' = parseValue(input)
  /\ phase' = "returned"
  /\ UNCHANGED <<input, facadeVars>>

NextParser == callParseValue

SpecParser == InitParser /\ [][NextParser]_vars

(***************************************************************************)
(* Properties.                                                             *)
(***************************************************************************)
\* equality of values up to the order of the members of objects
RECURSIVE DeepEqual(_, _)
DeepEqual(x, y) ==
  /\ x.t = y.t
  /\ CASE x.t = "array" ->
            /\ Len(x.a) = Len(y.a)
            /\ \A i \in 1..Len(x.a) : DeepEqual(x.a[i], y.a[i])
       [] x.t = "object" ->
            /\ Len(x.o) = Len(y.o)
            /\ \A i \in 1..Len(x.o) : \E j \in 1..Len(y.o) :
                 x.o[i].k = y.o[j].k /\ DeepEqual(x.o[i].v, y.o[j].v)
       [] OTHER -> x = y

NullText == <<"n", "u", "l", "l">>

Trimmed(s) == SubSeq(s, SkipWs(s, 1), SkipWsBack(s, Len(s)))

\* the last call is op, and the store answered it without an error
Answered(op) == last.op = op /\ last.got.ok

\* C1 (as claimed): a getItem(k) that follows setItem(k, v) with no write to k
\* in between resolves to a value deep-equal to v.
C1_RoundTrip ==
  (Answered("getItem") /\ written[last.keys[1]] # VUndef)
    => /\ last.promise.ok
       /\ DeepEqual(last.promise.v, written[last.keys[1]])

\* C2 (as claimed): setItem(k, s) of a text s hands the store exactly s, and the
\* getItem(k) that follows resolves to s.
C2_PlainString ==
  /\ (last.op = "setItem" /\ IsString(last.vals[1]))
       => last.storeOp = "setItem" /\ last.raw = <<last.vals[1]>>
  /\ (Answered("getItem") /\ IsString(written[last.keys[1]]))
       => last.promise = Returned(written[last.keys[1]])

\* C3 (as claimed): getItem on a key with no entry returns the absence marker,
\* and getItem on a key that has an entry never returns that same value.
C3_AbsenceDistinct ==
  Answered("getItem")
    => /\ last.got.v = VNull => last.promise = Returned(VNull)
       /\ last.got.v # VNull => last.promise # Returned(VNull)

\* C3 (amended): getItem on a key with no entry resolves to null; on a key that
\* has an entry it resolves to null as well exactly when the raw text of the
\* entry is the JSON text null, and to something else, or a rejection, for
\* every other entry.
C3_AbsenceOrStoredNull ==
  Answered("getItem")
    => /\ last.got.v = VNull => last.promise = Returned(VNull)
       /\ last.got.v # VNull
            => (last.promise = Returned(VNull) <=> Trimmed(last.got.v.s) = NullText)

C3_Witness ==
  /\ Answered("getItem")
  /\ last.got.v = VStr(NullText)
  /\ written[last.keys[1]] = VNull
  /\ last.promise = Returned(VNull)

\* C4 (as claimed): mergeItem(k, v) with v no object and no array fails with
\* the invalid-argument error and does not invoke the store.
C4_MergeValidation ==
  (last.op = "mergeItem" /\ last.vals[1].t \notin {"array", "object"})
    => /\ last.promise = Thrown(InvalidJSON)
       /\ last.storeOp = "none"

\* C5 (as claimed): multiGet(keys), over keys that were set with setItem or
\* have no entry, resolves to one pair per requested key, in the order of the
\* request; the i-th pair carries the i-th key with the value set for it, or
\* the absence marker when the key has no entry.
C5_Positional ==
  (/\ Answered("multiGet")
   /\ \A i \in 1..Len(last.keys) :
        written[last.keys[i]] # VUndef \/ store[last.keys[i]] = VNull)
    => /\ last.promise.ok
       /\ Len(last.promise.v.a) = Len(last.keys)
       /\ \A i \in 1..Len(last.keys) :
            LET pair == last.promise.v.a[i].a
                k == last.keys[i]
            IN /\ pair[1] = VStr(KeyText(k))
               /\ written[k] # VUndef => DeepEqual(pair[2], written[k])
               /\ store[k] = VNull => pair[2] = VNull

\* C6 (as claimed): a callback handed to an operation is invoked once, gets an
\* error exactly when the promise rejects, and for getItem and multiGet gets
\* the value the promise resolves to.
C6_CallbackAgrees ==
  (last.op # "none" /\ last.callback)
    => /\ last.cb.n = 1
       /\ last.cb.err # "" <=> ~last.promise.ok
       /\ (last.op \in {"getItem", "multiGet"} /\ last.promise.ok)
            => last.cb.v = last.promise.v

\* the promise of a read settles with the JSON parse of the raw entry the
\* callback was given
ParsedFrom(raw, settled) ==
  IF raw = VNull THEN settled = Returned(VNull)
  ELSE IF JsonParse(raw.s).ok THEN settled = Returned(JsonParse(raw.s).v)
  ELSE settled = Thrown("SyntaxError")

\* C6 (amended): a callback handed to an operation is invoked once, by the
\* store and with the outcome of the store.  An error it gets is the error the
\* promise rejects with.  For the operations other than getItem and multiGet
\* it gets an error exactly when the promise rejects.  For getItem and
\* multiGet it gets the raw texts of the store, while the promise resolves to
\* their JSON parse, or rejects with a SyntaxError the callback never sees.
C6_CallbackSeesStore ==
  (last.op # "none" /\ last.callback)
    => /\ last.cb.n = 1
       /\ last.cb.err # "" => last.promise = Thrown(last.cb.err)
       /\ (last.op \notin {"getItem", "multiGet"} /\ last.cb.err = "")
            => last.promise = Returned(last.cb.v)
       /\ (last.op = "getItem" /\ last.cb.err = "")
            => ParsedFrom(last.cb.v, last.promise)
       /\ (last.op = "multiGet" /\ last.cb.err = "")
            => /\ Len(last.cb.v.a) = Len(last.keys)
               /\ last.promise.ok
                    <=> \A i \in 1..Len(last.keys) :
                          \/ last.cb.v.a[i].a[2] = VNull
                          \/ JsonParse(last.cb.v.a[i].a[2].s).ok
               /\ last.promise.ok
                    => \A i \in 1..Len(last.keys) :
                          /\ last.promise.v.a[i].a[1] = last.cb.v.a[i].a[1]
                          /\ ParsedFrom(last.cb.v.a[i].a[2],
                                        Returned(last.promise.v.a[i].a[2]))

C6_Witness ==
  /\ last.op = "getItem" /\ last.callback
  /\ last.cb = [n |-> 1, err |-> "", v |-> FortyTwoText]
  /\ last.promise = Returned(FortyTwo)

\* C7 (as claimed): an operation fails only with the invalid-argument error of
\* a merge or with the error the store reported, unchanged.
C7_FailureSources ==
  ~last.promise.ok
    => \/ last.op \in {"mergeItem", "multiMerge"} /\ last.promise = Thrown(InvalidJSON)
       \/ ~last.got.ok /\ last.promise = last.got

\* C8: after multiSet over a key list, multiRemove of the same keys and
\* multiGet of the same keys, every pair of the result is absent
C8_AllAbsent ==
  batch.stage = 3
    => /\ last.op = "multiGet"
       /\ last.promise = Returned(VArr([i \in 1..Len(batch.keys) |->
                            VArr(<<VStr(KeyText(batch.keys[i])), VNull>>)]))

\* C8: a multiRemove changes no entry under a key it was not given
C8_OthersKept ==
  last'.op = "multiRemove"
    => \A k \in StoreKeys : ~InSeq(k, last'.keys) => store'[k] = store[k]

AllDigits(s, i, j) == \A k \in i..j : At(s, k) \in Digit

\* s[i..j] is digits, digits with a point in or after them, or a point and digits
IsMantissa(s, i, j) ==
  \/ j >= i /\ AllDigits(s, i, j)
  \/ \E d \in i..j : /\ s[d] = "." /\ j > i
                     /\ AllDigits(s, i, d - 1) /\ AllDigits(s, d + 1, j)

\* s[i..j] is e or E, an optional sign and at least one digit
IsExponent(s, i, j) ==
  /\ At(s, i) \in {"e", "E"}
  /\ LET d == IF At(s, i + 1) \in {"+", "-"} THEN i + 2 ELSE i + 1
     IN j >= d /\ AllDigits(s, d, j)

IsUnsignedDecimal(s, i, j) ==
  \/ IsMantissa(s, i, j)
  \/ \E m \in i..j : IsMantissa(s, i, m) /\ IsExponent(s, m + 1, j)
  \/ SubSeq(s, i, j) = <<"I", "n", "f", "i", "n", "i", "t", "y">>

\* the whole of s is a decimal literal, with an optional sign
IsDecimalLiteral(s) ==
  IsUnsignedDecimal(s, IF At(s, 1) \in {"+", "-"} THEN 2 ELSE 1, Len(s))

\* the whole of s is a hexadecimal, octal or binary literal of value zero
IsRadixZero(s) ==
  /\ Len(s) >= 3
  /\ s[1] = "0" /\ s[2] \in {"x", "X", "o", "O", "b", "B"}
  /\ \A k \in 3..Len(s) : s[k] = "0"

Bracketed(s) ==
  \/ At(s, 1) = "{" /\ At(s, Len(s)) = "}"
  \/ At(s, 1) = "[" /\ At(s, Len(s)) = "]"

\* what parseValue gives for a text that is not taken for a number
NonNumeric(s) ==
  IF Bracketed(s)
  THEN (IF JsonParse(s).ok THEN output = Returned(JsonParse(s).v)
        ELSE output = Thrown("SyntaxError"))
  ELSE output = Returned(VStr(s))

\* C9 (as claimed): parseValue(s) returns a number exactly when s parses as a
\* float whose string form is s character for character; otherwise the JSON
\* parse of s when s is bracketed by {} or []; otherwise s.
C9_ExactRoundTrip ==
  (phase = "returned" /\ IsString(input))
    => LET s == input.s
           exact == ParseFloat(s).t = "number" /\ NumText(ParseFloat(s).n) = s
       IN IF exact THEN output = Returned(ParseFloat(s)) ELSE NonNumeric(s)

\* C9 (amended): parseValue(s) returns a number, parseFloat(s), exactly when s
\* with the white space around it removed is a complete decimal literal (an
\* optional sign, digits with an optional fraction and exponent, or Infinity)
\* or a 0x, 0o or 0b literal of value zero: "42", "42.0", " 42", "1e3" and
\* "042" give numbers, "0x10" and "4e" do not.  Otherwise it returns
\* JSON.parse(s) when s is bracketed by {} or [], throwing a SyntaxError when s
\* is not JSON; otherwise it returns s.  A value that is no text is returned
\* as it is.
C9_NumericEquality ==
  phase = "returned"
    => IF IsString(input)
       THEN LET s == input.s
                numeric == IsDecimalLiteral(Trimmed(s)) \/ IsRadixZero(Trimmed(s))
            IN IF numeric
               THEN output = Returned(ParseFloat(s)) /\ output.v.t \in {"number", "Infinity"}
               ELSE NonNumeric(s)
       ELSE output = Returned(input)

C9_Witness ==
  /\ phase = "returned"
  /\ input = VStr(<<"4", ".", "0">>)
  /\ output = Returned(VNum(4, 0))

\* C10 (as claimed): mergeItem and multiMerge hand the store, for a value v,
\* the text that the serialization of setItem gives for v.
C10_SameSerialization ==
  /\ last.op = "mergeItem" => last.raw = <<stringify(last.vals[1])>>
  /\ last.op = "multiMerge"
       => last.raw = [i \in 1..Len(last.vals) |-> stringify(last.vals[i])]

\* C10 (amended): for a value that is no text, mergeItem and multiMerge hand
\* the store the text that the serialization of setItem gives for it;  for a
\* text, multiMerge hands over the text unchanged, as setItem does, and
\* mergeItem hands over the text JSON-encoded, in quotes.
C10_SerializationButText ==
  /\ last.op = "mergeItem"
       => last.raw = <<IF IsString(last.vals[1]) THEN VStr(Quote(last.vals[1].s))
                       ELSE stringify(last.vals[1])>>
  /\ last.op = "multiMerge"
       => last.raw = [i \in 1..Len(last.vals) |-> stringify(last.vals[i])]

C10_Witness ==
  /\ last.op = "multiMerge"
  /\ last.vals = <<Hi, ObjA1>>
  /\ last.raw = <<Hi, VStr(JsonText(ObjA1))>>

====
